---- MODULE Spec2Model ----
(***************************************************************************)
(* State-machine model of the SwapCard component of the Uniswap V2 swap    *)
(* dapp (src/src/components/SwapCard.jsx) together with the library calls  *)
(* its handlers make (viem parseEther, the Uniswap SDK Pair/Trade/Price    *)
(* arithmetic, the wallet's writeContractAsync and the RPC client).        *)
(*                                                                         *)
(* Amounts.  A raw token amount is an integer number of base units (wei).  *)
(* A JavaScript value held in fromAmount / toAmount is a record            *)
(*     [kind, n, d]                                                        *)
(*   kind = "empty" : the string ""                                        *)
(*   kind = "bad"   : a string that is no plain decimal numeral ("abc",    *)
(*                    "1e5"); viem's parseEther rejects it                 *)
(*   kind = "dec"   : the plain decimal numeral of n base units, i.e. the  *)
(*                    string whose value is n * 10^-Decimals tokens        *)
(*   kind = "num"   : a JavaScript Number of value (n/d) * 10^-Decimals    *)
(* so parseEther, which multiplies by 10^Decimals, maps "dec" n to the raw *)
(* integer n, and toExact maps the raw integer n back to "dec" n.          *)
(* A quantity that is 10^e times an integer m (the result of parseEther    *)
(* applied to an integer numeral) is kept as the pair [m, e].              *)
(***************************************************************************)
EXTENDS Integers, Sequences, FiniteSets, TLC

\* ------------------------------------------------------------------ bounds
MaxPendingQuotes == 1   \* calls of handleAmountChange awaiting their reserve read
MaxOverlap       == 2   \* the same, where edits of the From field overlap
MaxPendingSwaps  == 1   \* calls of executeSwap that have not returned yet
MaxSwapOverlap   == 2   \* the same, where clicks on Swap overlap
MaxNow           == 500 \* clock value (milliseconds) up to which time advances

\* -------------------------------------------------------- program constants
Decimals          == 18     \* DAI / WETH decimals, the scale of parseEther
SlippageNumerator == 50     \* new Percent("50", "10000")
SlippageDenominator == 10000
DeadlineSeconds   == 1200   \* 60 * 20
SignificantDigits == 6      \* toSignificant(6)
FeeNumerator      == 997    \* Pair.getOutputAmount: 0.3% fee on the input
FeeDenominator    == 1000
DefaultDeadline   == 20     \* SettingsModal: deadline state default (minutes)
DefaultSlippage   == 50     \* SettingsModal: slippage default 0.5 (%), in bps

DaiAddress  == "0x6B175474E89094C44Da98b954EedeAC495271d0F"
WethAddress == "0xC02aaA39b223FE8D0A0e5C4F27eAD9083C756Cc2"
RouterAddress == "0x7a250d5630B4cF539739dF2C5dAcb4c659F2488D"

\* Tokens of the pair (WETH9[ChainId.MAINNET] and the DAI Token).
WETH == [symbol |-> "WETH", address |-> WethAddress]
DAI  == [symbol |-> "DAI", address |-> DaiAddress]

\* Token.sortsBefore compares the lower-cased addresses; the first byte of
\* the two addresses (0x6B = 107, 0xC0 = 192) already decides the order.
AddressKey(a) == IF a = DaiAddress THEN 107 ELSE 192
SortsBefore(a, b) == AddressKey(a.address) < AddressKey(b.address)

\* ----------------------------------------------------------------- values
Empty     == [kind |-> "empty", n |-> 0, d |-> 1]
Bad       == [kind |-> "bad", n |-> 0, d |-> 1]
Dec(w)    == [kind |-> "dec", n |-> w, d |-> 1]
Num(n, d) == [kind |-> "num", n |-> n, d |-> d]
NumZero   == Num(0, 1)
NaN       == [kind |-> "nan", n |-> 0, d |-> 1]

Ok(v)  == [ok |-> TRUE, val |-> v, err |-> ""]
Err(e) == [ok |-> FALSE, val |-> 0, err |-> e]

Abs(x) == IF x < 0 THEN -x ELSE x
Sign(x) == IF x < 0 THEN -1 ELSE IF x > 0 THEN 1 ELSE 0

\* JSBI.divide: integer division truncating toward zero (b # 0).
TruncDiv(a, b) ==
    LET q == Abs(a) \div Abs(b)
    IN  IF (a < 0) # (b < 0) THEN -q ELSE q

RECURSIVE Pow10(_)
Pow10(k) == IF k = 0 THEN 1 ELSE 10 * Pow10(k - 1)

\* Number.prototype.toString / String.prototype.toString of an amount value:
\* strings are returned as they are; a Number 0 prints "0"; a non-zero Number
\* below 1e-6 in magnitude prints in exponent notation ("9.99999e-19"), which
\* is no plain decimal numeral.  Every non-zero Number of the model is below
\* 1e-6 tokens (amounts are at most 10^6 base units of 10^-18 tokens).
AmountToString(a) ==
    CASE a.kind = "num" -> (IF a.n = 0 THEN Dec(0) ELSE Bad)
      [] a.kind = "nan" -> Bad
      [] OTHER          -> a

\* viem parseEther(text) = parseUnits(text, 18): rejects what is no plain
\* decimal numeral, reads "" as 0, and scales a numeral by 10^18.
ParseEther(t) ==
    CASE t.kind = "bad"   -> Err("InvalidDecimalNumberError")
      [] t.kind = "empty" -> Ok(0)
      [] OTHER            -> Ok(t.n)

\* parseEther applied to the decimal numeral of an integer m (a bigint's
\* toString()): the result is m * 10^Decimals, kept as mantissa and exponent.
ParseEtherOfInteger(m) == [m |-> m, e |-> Decimals]

\* The value m * 10^e of a mantissa/exponent pair equals the integer x.  With
\* e > 0 and |x| < 10^e (every raw amount of the model is below 10^Decimals)
\* that is so only when both are 0.
ScaledEquals(s, x) == IF s.e = 0 THEN s.m = x ELSE (s.m = 0 /\ x = 0)

\* CurrencyAmount.toExact(): the decimal numeral of a raw amount.
ToExact(raw) == Dec(raw)

\* ------------------------------------------------------------ Uniswap SDK
RECURSIVE GCD(_, _)
GCD(a, b) == IF b = 0 THEN a ELSE GCD(b, a % b)

\* The Number n/d as a value: the fraction in lowest terms, d > 0.
Reduce(n, d) ==
    IF n = 0 THEN NumZero
    ELSE LET g == GCD(Abs(n), d) IN Num(TruncDiv(n, g), d \div g)

\* Pair.getOutputAmount(inputAmount) of the pair whose reserves are
\* res = <<reserve0, reserve1>> (token0 = DAI, token1 = WETH).
\* Mutant: the reserves are taken in the wrong order.
GetOutputAmountSwappedReserves(res, inputIsToken0, amountIn) ==
    IF res[1] = 0 \/ res[2] = 0 THEN Err("InsufficientReservesError")
    ELSE LET inputReserve  == IF inputIsToken0 THEN res[2] ELSE res[1]
             outputReserve == IF inputIsToken0 THEN res[1] ELSE res[2]
             inputAmountWithFee == amountIn * FeeNumerator
             numerator   == inputAmountWithFee * outputReserve
             denominator == inputReserve * FeeDenominator + inputAmountWithFee
         IN  IF denominator = 0 THEN Err("RangeError")
             ELSE LET out == TruncDiv(numerator, denominator)
                  IN  IF out = 0 THEN Err("InsufficientInputAmountError")
                      ELSE Ok(out)

\* Mutant: an empty pool is not rejected.
GetOutputAmountNoReserveCheck(res, inputIsToken0, amountIn) ==
    LET inputReserve  == IF inputIsToken0 THEN res[1] ELSE res[2]
        outputReserve == IF inputIsToken0 THEN res[2] ELSE res[1]
        inputAmountWithFee == amountIn * FeeNumerator
        numerator   == inputAmountWithFee * outputReserve
        denominator == inputReserve * FeeDenominator + inputAmountWithFee
    IN  IF denominator = 0 THEN Err("RangeError")
        ELSE LET out == TruncDiv(numerator, denominator)
             IN  IF out = 0 THEN Err("InsufficientInputAmountError")
                 ELSE Ok(out)

\* Mutant: an output of 0 is not rejected.
GetOutputAmountNoInputCheck(res, inputIsToken0, amountIn) ==
    IF res[1] = 0 \/ res[2] = 0 THEN Err("InsufficientReservesError")
    ELSE LET inputReserve  == IF inputIsToken0 THEN res[1] ELSE res[2]
             outputReserve == IF inputIsToken0 THEN res[2] ELSE res[1]
             inputAmountWithFee == amountIn * FeeNumerator
             numerator   == inputAmountWithFee * outputReserve
             denominator == inputReserve * FeeDenominator + inputAmountWithFee
         IN  IF denominator = 0 THEN Err("RangeError")
             ELSE Ok(TruncDiv(numerator, denominator))

\* Mutant: no fee is taken from the input.
GetOutputAmountNoFee(res, inputIsToken0, amountIn) ==
    IF res[1] = 0 \/ res[2] = 0 THEN Err("InsufficientReservesError")
    ELSE LET inputReserve  == IF inputIsToken0 THEN res[1] ELSE res[2]
             outputReserve == IF inputIsToken0 THEN res[2] ELSE res[1]
             numerator   == amountIn * outputReserve
             denominator == inputReserve + amountIn
         IN  IF denominator = 0 THEN Err("RangeError")
             ELSE LET out == TruncDiv(numerator, denominator)
                  IN  IF out = 0 THEN Err("InsufficientInputAmountError")
                      ELSE Ok(out)

\* Mutant: numerator and denominator of the quotient are exchanged.
GetOutputAmountInverted(res, inputIsToken0, amountIn) ==
    IF res[1] = 0 \/ res[2] = 0 THEN Err("InsufficientReservesError")
    ELSE LET inputReserve  == IF inputIsToken0 THEN res[1] ELSE res[2]
             outputReserve == IF inputIsToken0 THEN res[2] ELSE res[1]
             inputAmountWithFee == amountIn * FeeNumerator
             numerator   == inputAmountWithFee * outputReserve
             denominator == inputReserve * FeeDenominator + inputAmountWithFee
         IN  IF numerator = 0 THEN Err("RangeError")
             ELSE LET out == TruncDiv(denominator, numerator)
                  IN  IF out = 0 THEN Err("InsufficientInputAmountError")
                      ELSE Ok(out)

GetOutputAmount(res, inputIsToken0, amountIn) ==
    IF res[1] = 0 \/ res[2] = 0 THEN Err("InsufficientReservesError")
    ELSE LET inputReserve  == IF inputIsToken0 THEN res[1] ELSE res[2]
             outputReserve == IF inputIsToken0 THEN res[2] ELSE res[1]
             inputAmountWithFee == amountIn * FeeNumerator
             numerator   == inputAmountWithFee * outputReserve
             denominator == inputReserve * FeeDenominator + inputAmountWithFee
         IN  IF denominator = 0 THEN Err("RangeError")
             ELSE LET out == TruncDiv(numerator, denominator)
                  IN  IF out = 0 THEN Err("InsufficientInputAmountError")
                      ELSE Ok(out)

\* Long division of p by q (both > 0) carried on until the quotient has
\* digits significant digits: <<quotient, remainder, k>> with
\* quotient = floor(p * 10^k / q).
RECURSIVE LongDivide(_, _, _, _, _)
LongDivide(quot, rem, q, k, digits) ==
    IF quot >= Pow10(digits - 1) THEN <<quot, rem, k>>
    ELSE LongDivide(quot * 10 + ((rem * 10) \div q), (rem * 10) % q, q, k + 1, digits)

\* Fraction.toSignificant(digits) of numerator / denominator, as the Number
\* the string converts to (a zero denominator, which no Trade has, as NaN).  decimal.js divides at precision
\* digits + 1 and then toSignificantDigits(digits) rounds again, both times
\* ROUND_HALF_UP (half away from zero).
ToSignificant(numerator, denominator, digits) ==
    LET p  == Abs(numerator)
        q  == Abs(denominator)
        ld == LongDivide(p \div q, p % q, q, 0, digits + 1)
        m7 == ld[1] + (IF 2 * ld[2] >= q THEN 1 ELSE 0)
        m6 == (m7 + 5) \div 10
        s  == Sign(numerator) * Sign(denominator)
    IN  IF denominator = 0 THEN NaN
        ELSE IF numerator = 0 THEN NumZero
        ELSE IF ld[3] = 0 THEN Reduce(s * m6 * 10, 1)
        ELSE Reduce(s * m6, Pow10(ld[3] - 1))

\* The product of two Numbers (the binary rounding of the double product is
\* not modelled: the product is exact).
Times(a, b) ==
    IF a.kind = "nan" \/ b.kind = "nan" THEN NaN
    ELSE Reduce(a.n * b.n, a.d * b.d)

\* parseFloat of a string: the value of a plain decimal numeral, NaN for "".
ParseFloat(t) == IF t.kind = "dec" THEN Num(t.n, 1) ELSE NaN

\* fetchRouteAndTrade once the reserves res are known: new Route, new Trade
\* (EXACT_INPUT) and the execution price to 6 significant digits.
FetchRouteAndTrade(res, inputAmount, inputToken, outputToken) ==
    LET got == GetOutputAmount(res, inputToken = DAI, inputAmount)
    IN  IF ~got.ok THEN [ok |-> FALSE, err |-> got.err, inputAmount |-> 0,
                         outputAmount |-> 0, rate |-> NumZero]
        ELSE [ok |-> TRUE, err |-> "", inputAmount |-> inputAmount,
              outputAmount |-> got.val,
              rate |-> ToSignificant(got.val, inputAmount, SignificantDigits)]

\* Trade.minimumAmountOut(slippageTolerance) for an EXACT_INPUT trade:
\* new Fraction(1).add(tolerance).invert().multiply(outputAmount).quotient
\* Mutant: the output is scaled by (1 - tolerance).
MinimumAmountOutMutant(outputAmount, tolNum, tolDen) ==
    TruncDiv(outputAmount * (tolDen - tolNum), tolDen)

MinimumAmountOut(outputAmount, tolNum, tolDen) ==
    TruncDiv(tolDen * outputAmount, (1 * tolDen + tolNum * 1) * 1)


\* ------------------------------------------------------------------ state
VARIABLES
    fromToken,          \* useState: {symbol, balance} of the From selector
    toToken,            \* useState: {symbol, balance} of the To selector
    fromAmount,         \* useState: value shown in the From field
    toAmount,           \* useState: value shown in the To field
    isSwappingFromEth,  \* useState: direction flag
    showSettings,       \* useState: the settings modal is rendered
    slippage,           \* SettingsModal state (basis points) while rendered
    deadline,           \* SettingsModal state (minutes) while rendered
    now,                \* Date.now(), milliseconds
    reserves,           \* <<reserve0, reserve1>> of the DAI/WETH pair contract
    quotes,             \* calls of handleAmountChange awaiting their reserve read
    lastQuote,          \* the call of handleAmountChange that returned last
    swaps,              \* calls of executeSwap that have not returned yet
    lastSwap,           \* the call of executeSwap that returned last
    nativeBalance,      \* useBalance: isFetched and data of the native balance query
    erc20Balance,       \* useReadContract: isFetched and data of the DAI balanceOf query
    crashed,            \* an exception escaped while rendering: the component is unmounted
    lastSave            \* how the last click on Save in the settings modal ended

form     == <<fromToken, toToken, fromAmount, toAmount, isSwappingFromEth>>
settings == <<showSettings, slippage, deadline, lastSave>>
balances == <<nativeBalance, erc20Balance, crashed>>
vars     == <<fromToken, toToken, fromAmount, toAmount, isSwappingFromEth,
              showSettings, slippage, deadline, now, reserves,
              quotes, lastQuote, swaps, lastSwap,
              nativeBalance, erc20Balance, crashed, lastSave>>

\* The connected account (useAccount().address).
Address == "0xUser"

\* Values the user types into the amount fields and the deadline field, and
\* the reserves the pair contract may hold.
AmountTexts    == {Empty, Bad, Dec(0), Dec(-3), Dec(3), Dec(100)}
QuoteTexts     == (AmountTexts \ {Dec(100)}) \cup {Dec(-101)}
ToAmountTexts  == {Dec(3)}
ReservePairs   == {<<0, 100>>, <<100, 0>>, <<100, 100>>, <<100, 404>>, <<404, 100>>}
RaceTexts      == {Bad, Dec(0), Dec(3)}
TradeTexts     == {Dec(0), Dec(1), Dec(3), Dec(10)}
TradeReserves  == {<<200000, 100>>, <<404, 100>>, <<100, 404>>, <<100, 100>>}
DeadlineInputs == {DefaultDeadline, 30}
NativeBalances == {2, 30}
Erc20Balances  == {5, 1000}
SlippageInputs == {DefaultSlippage, 100}
ReceiptStatuses == {"success", "reverted"}

Remove(seq, i) == SubSeq(seq, 1, i - 1) \o SubSeq(seq, i + 1, Len(seq))

NoParams == [built |-> FALSE, amountIn |-> 0, amountOutMin |-> 0,
             path |-> <<>>, to |-> "", deadline |-> 0]
NoCall   == [sent |-> FALSE, functionName |-> "", args |-> <<>>, value |-> 0]
NoApprove == [sent |-> FALSE, spender |-> "", amount |-> [m |-> 0, e |-> 0]]

\* A call of handleAmountChange(t) made while the direction flag was dir.
NewQuote(t, dir, pc, read) ==
    [amount |-> t, dir |-> dir, pc |-> pc, read |-> read, traded |-> FALSE,
     inputAmount |-> 0, outputAmount |-> 0, wrote |-> NumZero, stale |-> FALSE]

\* A call of executeSwap made while fromAmount was amount and the flag dir.
NewSwap(amount, dir, pc, read, caught) ==
    [amount |-> amount, dir |-> dir, pc |-> pc, read |-> read, caught |-> caught,
     traded |-> FALSE, inputAmount |-> 0, outputAmount |-> 0,
     params |-> NoParams, builtAt |-> 0,
     approve |-> NoApprove, approved |-> "none",
     call |-> NoCall, txs |-> <<>>, receipt |-> "none", alerts |-> <<>>]

\* A query result: data is undefined until a read has succeeded.
NotFetched == [isFetched |-> FALSE, defined |-> FALSE, value |-> 0]
Fetched(v) == [isFetched |-> TRUE, defined |-> TRUE, value |-> v]

NoQuote == NewQuote(Empty, TRUE, "none", FALSE)
NoSwap  == NewSwap(Empty, TRUE, "none", FALSE, FALSE)

Init ==
    /\ fromToken = [symbol |-> "ETH", balance |-> "1.234"]
    /\ toToken = [symbol |-> "DAI", balance |-> "1000"]
    /\ fromAmount = Empty
    /\ toAmount = Empty
    /\ isSwappingFromEth = TRUE
    /\ showSettings = FALSE
    /\ slippage = DefaultSlippage
    /\ deadline = DefaultDeadline
    /\ lastSave = "none"
    /\ now = 0
    /\ reserves \in ReservePairs
    /\ quotes = <<>>
    /\ lastQuote = NoQuote
    /\ swaps = <<>>
    /\ lastSwap = NoSwap
    /\ nativeBalance = NotFetched
    /\ erc20Balance = NotFetched
    /\ crashed = FALSE

\* -------------------------------------------------------- direction toggle
\* Mutant: the direction flag is not negated.
ToggledKeepingFlag(f) == <<f[2], f[1], f[4], f[3], f[5]>>

\* Mutant: the To field is cleared instead of taking the From amount.
ToggledClearingTo(f) == <<f[2], f[1], f[4], Empty, ~f[5]>>

\* The form <<fromToken, toToken, fromAmount, toAmount, isSwappingFromEth>>
\* after handleSwap has run on form f.
Toggled(f) == <<f[2], f[1], f[4], f[3], ~f[5]>>

HandleSwap ==
    /\ ~crashed
    /\ LET t == Toggled(form)
       IN  /\ fromToken' = t[1]
           /\ toToken' = t[2]
           /\ fromAmount' = t[3]
           /\ toAmount' = t[4]
           /\ isSwappingFromEth' = t[5]
    /\ UNCHANGED <<settings, now, reserves, quotes, lastQuote, swaps, lastSwap>>
    /\ UNCHANGED balances

\* Mutant: an edit of the To field also replaces the From amount.
SetToAmountAlsoFrom(t) ==
    /\ ~crashed
    /\ toAmount' = t
    /\ fromAmount' = t
    /\ UNCHANGED <<fromToken, toToken, isSwappingFromEth,
                   settings, now, reserves, quotes, lastQuote, swaps, lastSwap>>
    /\ UNCHANGED balances

\* The To field: onAmountChange={setToAmount}
SetToAmount(t) ==
    /\ ~crashed
    /\ toAmount' = t
    /\ UNCHANGED <<fromToken, toToken, fromAmount, isSwappingFromEth,
                   settings, now, reserves, quotes, lastQuote, swaps, lastSwap>>
    /\ UNCHANGED balances

\* ---------------------------------------------------------------- settings
\* The Settings button: the modal is mounted with its default state.
OpenSettings ==
    /\ ~crashed
    /\ ~showSettings
    /\ showSettings' = TRUE
    /\ slippage' = DefaultSlippage
    /\ deadline' = DefaultDeadline
    /\ UNCHANGED <<form, now, reserves, quotes, lastQuote, swaps, lastSwap, lastSave>>
    /\ UNCHANGED balances

\* The deadline field of the modal: setDeadline(e.target.value)
SetDeadline(v) ==
    /\ ~crashed
    /\ showSettings
    /\ deadline' = v
    /\ UNCHANGED <<form, showSettings, slippage, lastSave, now, reserves,
                   quotes, lastQuote, swaps, lastSwap>>
    /\ UNCHANGED balances

\* The slippage field of the modal: setSlippage(e.target.value), in basis
\* points.
SetSlippage(v) ==
    /\ ~crashed
    /\ showSettings
    /\ slippage' = v
    /\ UNCHANGED <<form, showSettings, deadline, lastSave, now, reserves,
                   quotes, lastQuote, swaps, lastSwap>>
    /\ UNCHANGED balances

\* onClose: the modal is unmounted and its state is dropped.
CloseSettings ==
    /\ ~crashed
    /\ showSettings
    /\ showSettings' = FALSE
    /\ slippage' = DefaultSlippage
    /\ deadline' = DefaultDeadline
    /\ UNCHANGED <<form, now, reserves, quotes, lastQuote, swaps, lastSwap, lastSave>>
    /\ UNCHANGED balances

\* SwapCard renders <SettingsModal onClose=... />: neither currentSettings
\* nor onSaveSettings is passed.
OnSaveSettingsPassed == FALSE

\* The Save button: handleSave calls onSaveSettings({slippage, deadline}) and
\* then onClose.  Calling the undefined prop throws in the click handler, so
\* onClose is not reached and the modal stays as it is.
SaveSettings ==
    /\ ~crashed
    /\ showSettings
    /\ IF OnSaveSettingsPassed
       THEN /\ lastSave' = "saved"
            /\ showSettings' = FALSE
            /\ slippage' = DefaultSlippage
            /\ deadline' = DefaultDeadline
       ELSE /\ lastSave' = "threw"
            /\ UNCHANGED <<showSettings, slippage, deadline>>
    /\ UNCHANGED <<form, now, reserves, quotes, lastQuote, swaps, lastSwap>>
    /\ UNCHANGED balances

\* The token button of the From selector: onSelectToken(token) is
\* setFromToken(fromToken).
SelectFromToken ==
    /\ ~crashed
    /\ fromToken' = fromToken
    /\ UNCHANGED <<toToken, fromAmount, toAmount, isSwappingFromEth, settings, now,
                   reserves, quotes, lastQuote, swaps, lastSwap>>
    /\ UNCHANGED balances

\* The token button of the To selector: setToToken(toToken).
SelectToToken ==
    /\ ~crashed
    /\ toToken' = toToken
    /\ UNCHANGED <<fromToken, fromAmount, toAmount, isSwappingFromEth, settings, now,
                   reserves, quotes, lastQuote, swaps, lastSwap>>
    /\ UNCHANGED balances

\* ------------------------------------------------------------------ clock
Tick ==
    /\ now < MaxNow
    /\ now' = now + 500
    /\ UNCHANGED <<form, settings, reserves, quotes, lastQuote, swaps, lastSwap>>
    /\ UNCHANGED balances

\* --------------------------------------------------------- balance effect
\* viem formatUnits(value, decimals) for value >= 0: the decimal digits of
\* value, left-padded to decimals digits, split before the last decimals
\* digits, trailing zeros of the fraction removed, "0" for an empty integer
\* part.
RECURSIVE DigitsOf(_)
DigitsOf(n) == IF n < 10 THEN <<n>> ELSE Append(DigitsOf(n \div 10), n % 10)

RECURSIVE PadStart(_, _)
PadStart(ds, k) == IF Len(ds) >= k THEN ds ELSE PadStart(<<0>> \o ds, k)

RECURSIVE StripTrailingZeros(_)
StripTrailingZeros(ds) ==
    IF ds = <<>> \/ ds[Len(ds)] # 0 THEN ds
    ELSE StripTrailingZeros(SubSeq(ds, 1, Len(ds) - 1))

DigitChar(d) == <<"0", "1", "2", "3", "4", "5", "6", "7", "8", "9">>[d + 1]

RECURSIVE DigitString(_)
DigitString(ds) == IF ds = <<>> THEN "" ELSE DigitChar(Head(ds)) \o DigitString(Tail(ds))

FormatUnits(value, decimals) ==
    LET display  == PadStart(DigitsOf(value), decimals)
        integer  == SubSeq(display, 1, Len(display) - decimals)
        fraction == StripTrailingZeros(SubSeq(display, Len(display) - decimals + 1,
                                              Len(display)))
    IN  (IF integer = <<>> THEN "0" ELSE DigitString(integer))
        \o (IF fraction = <<>> THEN "" ELSE "." \o DigitString(fraction))

FormatEther(wei) == FormatUnits(wei, Decimals)

\* The effect on [nativeBalance, erc20Balance], run when one of the two data
\* values has changed, with query results nb and eb.  Each updater reads its
\* data when isFetched is set; reading undefined data throws while React
\* renders, and with no error boundary the component is unmounted.
BalanceEffect(nb, eb) ==
    IF (nb.isFetched /\ ~nb.defined) \/ (eb.isFetched /\ ~eb.defined)
    THEN /\ crashed' = TRUE
         /\ UNCHANGED <<fromToken, toToken>>
    ELSE /\ crashed' = crashed
         /\ fromToken' = IF nb.isFetched
                         THEN [fromToken EXCEPT !.balance = FormatUnits(nb.value, Decimals)]
                         ELSE fromToken
         /\ toToken' = IF eb.isFetched
                       THEN [toToken EXCEPT !.balance = FormatEther(eb.value)]
                       ELSE toToken

\* The native balance read resolves with value v.
NativeBalanceArrives(v) ==
    /\ ~crashed
    /\ nativeBalance # Fetched(v)
    /\ nativeBalance' = Fetched(v)
    /\ BalanceEffect(Fetched(v), erc20Balance)
    /\ UNCHANGED <<fromAmount, toAmount, isSwappingFromEth, settings, now, reserves,
                   quotes, lastQuote, swaps, lastSwap, erc20Balance>>

\* The first native balance read fails: isFetched is set and data stays
\* undefined, so the effect does not run.
NativeBalanceFails ==
    /\ ~crashed
    /\ ~nativeBalance.isFetched
    /\ nativeBalance' = [nativeBalance EXCEPT !.isFetched = TRUE]
    /\ UNCHANGED <<form, settings, now, reserves, quotes, lastQuote, swaps, lastSwap,
                   erc20Balance, crashed>>

\* The DAI balanceOf read resolves with value v.
Erc20BalanceArrives(v) ==
    /\ ~crashed
    /\ erc20Balance # Fetched(v)
    /\ erc20Balance' = Fetched(v)
    /\ BalanceEffect(nativeBalance, Fetched(v))
    /\ UNCHANGED <<fromAmount, toAmount, isSwappingFromEth, settings, now, reserves,
                   quotes, lastQuote, swaps, lastSwap, nativeBalance>>

\* The first DAI balanceOf read fails.
Erc20BalanceFails ==
    /\ ~crashed
    /\ ~erc20Balance.isFetched
    /\ erc20Balance' = [erc20Balance EXCEPT !.isFetched = TRUE]
    /\ UNCHANGED <<form, settings, now, reserves, quotes, lastQuote, swaps, lastSwap,
                   nativeBalance, crashed>>

\* ------------------------------------------------------- handleAmountChange
InputToken(dir)  == IF dir THEN WETH ELSE DAI
OutputToken(dir) == IF dir THEN DAI ELSE WETH

\* getPairObject up to its await: the tokens are put in pair order and the
\* reserve read is issued; the else branch reads token1 before it is
\* initialised and throws.
GetPairObjectIssuesRead == SortsBefore(DAI, WETH)

\* The pending requests once a later call of handleAmountChange was made:
\* none of them is the most recently issued request any more.
Superseded(qs) == [k \in 1..Len(qs) |-> [qs[k] EXCEPT !.stale = TRUE]]

\* The From field: onAmountChange={handleAmountChange}.  The part that runs
\* before the first await: parseEther, CurrencyAmount.fromRawAmount and the
\* readContract call of fetchPairReserves; a throw runs the catch block.
HandleAmountChange(t) ==
    /\ ~crashed
    /\ LET parsed == ParseEther(t)
       IN  IF parsed.ok /\ GetPairObjectIssuesRead
           THEN /\ quotes' = Append(Superseded(quotes),
                                    NewQuote(t, isSwappingFromEth, "fetch", TRUE))
                /\ UNCHANGED <<fromAmount, toAmount, lastQuote>>
           ELSE /\ lastQuote' = NewQuote(t, isSwappingFromEth, "done", FALSE)
                /\ fromAmount' = t
                /\ toAmount' = NumZero
                /\ quotes' = Superseded(quotes)
    /\ UNCHANGED <<fromToken, toToken, isSwappingFromEth, settings, now, reserves,
                   swaps, lastSwap>>
    /\ UNCHANGED balances

\* Mutant: the continuation uses the amount and direction of the oldest
\* pending request instead of those of its own call.
QuoteOutcomeOfOldest(q, readOk) ==
    LET o == quotes[1]
        trade == FetchRouteAndTrade(reserves, ParseEther(o.amount).val,
                                    InputToken(o.dir), OutputToken(o.dir))
    IN  IF readOk /\ trade.ok
        THEN [o EXCEPT !.pc = "done", !.traded = TRUE,
                       !.inputAmount = trade.inputAmount,
                       !.outputAmount = trade.outputAmount,
                       !.wrote = Times(trade.rate, ParseFloat(o.amount))]
        ELSE [o EXCEPT !.pc = IF readOk THEN "done" ELSE "failed",
                       !.wrote = NumZero]

\* Mutant: the catch block leaves the From amount as it is displayed.
QuoteOutcomeCatchKeepsFrom(q, readOk) ==
    LET trade == FetchRouteAndTrade(reserves, ParseEther(q.amount).val,
                                    InputToken(q.dir), OutputToken(q.dir))
    IN  IF readOk /\ trade.ok
        THEN [q EXCEPT !.pc = "done", !.traded = TRUE,
                       !.inputAmount = trade.inputAmount,
                       !.outputAmount = trade.outputAmount,
                       !.wrote = Times(trade.rate, ParseFloat(q.amount))]
        ELSE [q EXCEPT !.pc = IF readOk THEN "done" ELSE "failed",
                       !.amount = fromAmount,
                       !.wrote = NumZero]

\* handleAmountChange after its await.  readOk: the reserve read resolved;
\* then the rest of the try block runs, and the catch block when the SDK
\* throws.  When the read rejected the catch block runs.  The result is the
\* request as it returns: wrote is the value passed to setToAmount.
QuoteOutcome(q, readOk) ==
    LET trade == FetchRouteAndTrade(reserves, ParseEther(q.amount).val,
                                    InputToken(q.dir), OutputToken(q.dir))
    IN  IF readOk /\ trade.ok
        THEN [q EXCEPT !.pc = "done", !.traded = TRUE,
                       !.inputAmount = trade.inputAmount,
                       !.outputAmount = trade.outputAmount,
                       !.wrote = Times(trade.rate, ParseFloat(q.amount))]
        ELSE [q EXCEPT !.pc = IF readOk THEN "done" ELSE "failed",
                       !.wrote = NumZero]

\* The reserve read of pending quote request i resolves.
QuoteReservesArrive(i) ==
    /\ i \in 1..Len(quotes)
    /\ LET r == QuoteOutcome(quotes[i], TRUE)
       IN  /\ fromAmount' = IF crashed THEN fromAmount ELSE r.amount
           /\ toAmount' = IF crashed THEN toAmount ELSE r.wrote
           /\ lastQuote' = r
    /\ quotes' = Remove(quotes, i)
    /\ UNCHANGED <<fromToken, toToken, isSwappingFromEth, settings, now, reserves,
                   swaps, lastSwap>>
    /\ UNCHANGED balances

\* The reserve read of pending quote request i rejects (no pool at the
\* address, the call reverts, the transport fails).
QuoteReadFails(i) ==
    /\ i \in 1..Len(quotes)
    /\ LET r == QuoteOutcome(quotes[i], FALSE)
       IN  /\ fromAmount' = IF crashed THEN fromAmount ELSE r.amount
           /\ toAmount' = IF crashed THEN toAmount ELSE r.wrote
           /\ lastQuote' = r
    /\ quotes' = Remove(quotes, i)
    /\ UNCHANGED <<fromToken, toToken, isSwappingFromEth, settings, now, reserves,
                   swaps, lastSwap>>
    /\ UNCHANGED balances

\* -------------------------------------------------------------- executeSwap
\* buildSwapTransaction after its await: the swap parameters built from the
\* trade at clock value nowMs.
BuildSwapTransaction(trade, dir, address, nowMs) ==
    LET amountOutMin == MinimumAmountOut(trade.outputAmount, SlippageNumerator,
                                          SlippageDenominator)
    IN  [built |-> TRUE,
         amountIn |-> ParseEther(ToExact(trade.inputAmount)).val,
         amountOutMin |-> ParseEther(ToExact(amountOutMin)).val,
         path |-> IF dir THEN <<WethAddress, DaiAddress>>
                  ELSE <<DaiAddress, WethAddress>>,
         to |-> address,
         deadline |-> (nowMs + DeadlineSeconds * 1000) \div 1000]

\* Mutant: amountIn is not shifted off the arguments when swapping from ETH.
RouterCallNoShift(dir, sp) ==
    [sent |-> TRUE,
     functionName |-> IF dir THEN "swapExactETHForTokens" ELSE "swapExactTokensForETH",
     args |-> <<sp.amountIn, sp.amountOutMin, sp.path, sp.to, sp.deadline>>,
     value |-> IF dir THEN sp.amountIn ELSE 0]

\* The writeContractAsync call on the router: Object.values(swapParams), with
\* amountIn shifted off when swapping from ETH.
RouterCall(dir, sp) ==
    [sent |-> TRUE,
     functionName |-> IF dir THEN "swapExactETHForTokens" ELSE "swapExactTokensForETH",
     args |-> IF dir THEN <<sp.amountOutMin, sp.path, sp.to, sp.deadline>>
              ELSE <<sp.amountIn, sp.amountOutMin, sp.path, sp.to, sp.deadline>>,
     value |-> IF dir THEN sp.amountIn ELSE 0]

\* The writeContractAsync call of approveTokens(amount).
ApproveCall(amount) ==
    [sent |-> TRUE, spender |-> RouterAddress, amount |-> ParseEtherOfInteger(amount)]

\* Mutant: the router call follows the direction flag of the current render.
IssueRouterCallCurrentFlag(a) ==
    [a EXCEPT !.pc = "swap", !.call = RouterCall(isSwappingFromEth, a.params),
              !.txs = Append(@, "router")]

\* Mutant: the router call is submitted a second time.
IssueRouterCallTwice(a) ==
    [a EXCEPT !.pc = "swap", !.call = RouterCall(a.dir, a.params),
              !.txs = @ \o <<"router", "router">>]

\* executeSwap after approveTokens has returned (from DAI) or after
\* args.shift() (from ETH): the router call is issued.
IssueRouterCall(a) ==
    [a EXCEPT !.pc = "swap", !.call = RouterCall(a.dir, a.params),
              !.txs = Append(@, "router")]

\* A click on Swap, up to the first await: buildSwapTransaction parses
\* fromAmount and issues the reserve read; a throw lands in the catch block
\* of executeSwap.
ExecuteSwap ==
    /\ ~crashed
    /\ LET parsed == ParseEther(AmountToString(fromAmount))
       IN  IF parsed.ok /\ GetPairObjectIssuesRead
           THEN /\ swaps' = Append(swaps, NewSwap(fromAmount, isSwappingFromEth,
                                                  "fetch", TRUE, FALSE))
                /\ UNCHANGED lastSwap
           ELSE /\ lastSwap' = NewSwap(fromAmount, isSwappingFromEth, "done", FALSE, TRUE)
                /\ UNCHANGED swaps
    /\ UNCHANGED <<form, settings, now, reserves, quotes, lastQuote>>
    /\ UNCHANGED balances

\* The reserve read of swap attempt i resolves: the trade and the swap
\* parameters are built, then the approve call (from DAI) or the router call
\* (from ETH) is issued; a throw of the SDK lands in the catch block.
SwapReservesArrive(i) ==
    /\ i \in 1..Len(swaps)
    /\ swaps[i].pc = "fetch"
    /\ LET a     == swaps[i]
           trade == FetchRouteAndTrade(reserves,
                                       ParseEther(AmountToString(a.amount)).val,
                                       InputToken(a.dir), OutputToken(a.dir))
           sp    == BuildSwapTransaction(trade, a.dir, Address, now)
           b     == [a EXCEPT !.traded = TRUE,
                              !.inputAmount = trade.inputAmount,
                              !.outputAmount = trade.outputAmount,
                              !.params = sp, !.builtAt = now]
       IN  IF ~trade.ok
           THEN /\ lastSwap' = [a EXCEPT !.pc = "done", !.caught = TRUE]
                /\ swaps' = Remove(swaps, i)
           ELSE /\ swaps' = [swaps EXCEPT ![i] =
                       IF a.dir THEN IssueRouterCall(b)
                       ELSE [b EXCEPT !.pc = "approve",
                                      !.approve = ApproveCall(sp.amountIn),
                                      !.txs = Append(@, "approve")]]
                /\ UNCHANGED lastSwap
    /\ UNCHANGED <<form, settings, now, reserves, quotes, lastQuote>>
    /\ UNCHANGED balances

\* The reserve read of swap attempt i rejects: the catch block of executeSwap.
SwapReadFails(i) ==
    /\ i \in 1..Len(swaps)
    /\ swaps[i].pc = "fetch"
    /\ lastSwap' = [swaps[i] EXCEPT !.pc = "done", !.caught = TRUE]
    /\ swaps' = Remove(swaps, i)
    /\ UNCHANGED <<form, settings, now, reserves, quotes, lastQuote>>
    /\ UNCHANGED balances

\* approveTokens returns after the approve transaction was broadcast (a
\* negative amount cannot be encoded as uint256, so it is never broadcast);
\* executeSwap goes on to the router call.
ApproveBroadcast(i) ==
    /\ i \in 1..Len(swaps)
    /\ swaps[i].pc = "approve"
    /\ swaps[i].approve.amount.m >= 0
    /\ swaps' = [swaps EXCEPT ![i] = IssueRouterCall([@ EXCEPT !.approved = "ok"])]
    /\ UNCHANGED <<form, settings, now, reserves, quotes, lastQuote, lastSwap>>
    /\ UNCHANGED balances

\* The approve call rejects: the catch block of approveTokens alerts and
\* approveTokens returns undefined; executeSwap goes on to the router call.
ApproveRejects(i) ==
    /\ i \in 1..Len(swaps)
    /\ swaps[i].pc = "approve"
    /\ swaps' = [swaps EXCEPT ![i] =
           IssueRouterCall([@ EXCEPT !.approved = "failed",
                                     !.alerts = Append(@, "Approval Failed!")])]
    /\ UNCHANGED <<form, settings, now, reserves, quotes, lastQuote, lastSwap>>
    /\ UNCHANGED balances

\* The router transaction is broadcast (its uint256 arguments and its value
\* are encodable); executeSwap waits for the receipt.
RouterBroadcast(i) ==
    /\ i \in 1..Len(swaps)
    /\ swaps[i].pc = "swap"
    /\ swaps[i].params.amountIn >= 0
    /\ swaps[i].params.amountOutMin >= 0
    /\ swaps' = [swaps EXCEPT ![i] = [@ EXCEPT !.pc = "receipt"]]
    /\ UNCHANGED <<form, settings, now, reserves, quotes, lastQuote, lastSwap>>
    /\ UNCHANGED balances

\* The router call rejects: the catch block of executeSwap.
RouterRejects(i) ==
    /\ i \in 1..Len(swaps)
    /\ swaps[i].pc = "swap"
    /\ lastSwap' = [swaps[i] EXCEPT !.pc = "done", !.caught = TRUE]
    /\ swaps' = Remove(swaps, i)
    /\ UNCHANGED <<form, settings, now, reserves, quotes, lastQuote>>
    /\ UNCHANGED balances

\* Mutant: the two alerts are exchanged.
ReceiptAlertExchanged(status) ==
    IF status = "success" THEN "Swap Failed!" ELSE "Swap Success!"

\* The alert chosen from receipt.status.
ReceiptAlert(status) ==
    IF status = "success" THEN "Swap Success!" ELSE "Swap Failed!"

\* waitForTransactionReceipt resolves: one of the two alerts.
ReceiptArrives(i, status) ==
    /\ i \in 1..Len(swaps)
    /\ swaps[i].pc = "receipt"
    /\ lastSwap' = [swaps[i] EXCEPT !.pc = "done", !.receipt = status,
                       !.alerts = Append(@, ReceiptAlert(status))]
    /\ swaps' = Remove(swaps, i)
    /\ UNCHANGED <<form, settings, now, reserves, quotes, lastQuote>>
    /\ UNCHANGED balances

\* waitForTransactionReceipt rejects: the catch block of executeSwap.
ReceiptWaitFails(i) ==
    /\ i \in 1..Len(swaps)
    /\ swaps[i].pc = "receipt"
    /\ lastSwap' = [swaps[i] EXCEPT !.pc = "done", !.caught = TRUE]
    /\ swaps' = Remove(swaps, i)
    /\ UNCHANGED <<form, settings, now, reserves, quotes, lastQuote>>
    /\ UNCHANGED balances

\* ---------------------------------------------------------- specifications
\* The whole component.
Next ==
    \/ HandleSwap
    \/ \E t \in ToAmountTexts : SetToAmount(t)
    \/ OpenSettings
    \/ \E v \in DeadlineInputs : SetDeadline(v)
    \/ \E v \in SlippageInputs : SetSlippage(v)
    \/ CloseSettings
    \/ SaveSettings
    \/ SelectFromToken
    \/ SelectToToken
    \/ Tick
    \/ \E t \in AmountTexts : Len(quotes) < MaxPendingQuotes /\ HandleAmountChange(t)
    \/ \E i \in 1..MaxPendingQuotes : QuoteReservesArrive(i)
    \/ \E i \in 1..MaxPendingQuotes : QuoteReadFails(i)
    \/ Len(swaps) < MaxPendingSwaps /\ ExecuteSwap
    \/ \E i \in 1..MaxPendingSwaps : SwapReservesArrive(i)
    \/ \E i \in 1..MaxPendingSwaps : SwapReadFails(i)
    \/ \E i \in 1..MaxPendingSwaps : ApproveBroadcast(i)
    \/ \E i \in 1..MaxPendingSwaps : ApproveRejects(i)
    \/ \E i \in 1..MaxPendingSwaps : RouterBroadcast(i)
    \/ \E i \in 1..MaxPendingSwaps : RouterRejects(i)
    \/ \E i \in 1..MaxPendingSwaps : \E st \in ReceiptStatuses : ReceiptArrives(i, st)
    \/ \E i \in 1..MaxPendingSwaps : ReceiptWaitFails(i)
    \/ \E v \in NativeBalances : NativeBalanceArrives(v)
    \/ NativeBalanceFails
    \/ \E v \in Erc20Balances : Erc20BalanceArrives(v)
    \/ Erc20BalanceFails

Spec == Init /\ [][Next]_vars

\* The quote pipeline: the amount fields, the direction toggle and the
\* reserve reads of handleAmountChange, with no Swap click, the settings
\* modal closed and the clock standing.
NextQuote ==
    \/ HandleSwap
    \/ \E t \in ToAmountTexts : SetToAmount(t)
    \/ \E t \in QuoteTexts : Len(quotes) < MaxPendingQuotes /\ HandleAmountChange(t)
    \/ \E i \in 1..MaxPendingQuotes : QuoteReservesArrive(i)
    \/ \E i \in 1..MaxPendingQuotes : QuoteReadFails(i)

SpecQuote == Init /\ [][NextQuote]_vars

\* Overlapping edits of the From field: a new edit is made while the reserve
\* reads of earlier ones are pending, and the reads complete in any order.
NextRace ==
    \/ HandleSwap
    \/ \E t \in RaceTexts : Len(quotes) < MaxOverlap /\ HandleAmountChange(t)
    \/ \E i \in 1..MaxOverlap : QuoteReservesArrive(i)
    \/ \E i \in 1..MaxOverlap : QuoteReadFails(i)

SpecRace == Init /\ [][NextRace]_vars

\* The same pipeline when every reserve read settles: the promise of the
\* oldest pending readContract call resolves or rejects, so the continuation
\* of its handleAmountChange call runs.
\* The steps of QuoteReservesArrive(1) and QuoteReadFails(1): no other step
\* removes the oldest pending request.
OldestReadSettles == quotes # <<>> /\ quotes' = Tail(quotes)

SpecLive ==
    /\ Init
    /\ [][NextRace]_vars
    /\ WF_quotes(OldestReadSettles)

\* Quotes on pools with liquidity: the form as constructed, over a pair
\* contract holding one of the TradeReserves (among them 20000 DAI and 10
\* WETH in units of 10^17 base units), with the amounts of TradeTexts.
InitTrade ==
    /\ fromToken = [symbol |-> "ETH", balance |-> "1.234"]
    /\ toToken = [symbol |-> "DAI", balance |-> "1000"]
    /\ fromAmount = Empty
    /\ toAmount = Empty
    /\ isSwappingFromEth = TRUE
    /\ showSettings = FALSE
    /\ slippage = DefaultSlippage
    /\ deadline = DefaultDeadline
    /\ lastSave = "none"
    /\ now = 0
    /\ reserves \in TradeReserves
    /\ quotes = <<>>
    /\ lastQuote = NoQuote
    /\ swaps = <<>>
    /\ lastSwap = NoSwap
    /\ nativeBalance = NotFetched
    /\ erc20Balance = NotFetched
    /\ crashed = FALSE

NextTrade ==
    \/ HandleSwap
    \/ \E t \in TradeTexts : Len(quotes) < MaxPendingQuotes /\ HandleAmountChange(t)
    \/ \E i \in 1..MaxPendingQuotes : QuoteReservesArrive(i)
    \/ \E i \in 1..MaxPendingQuotes : QuoteReadFails(i)

SpecTrade == InitTrade /\ [][NextTrade]_vars

\* The settings modal beside the form: opening it, editing its two fields,
\* Save and Cancel, with the direction toggle, the To field and the clock.
NextSettings ==
    \/ HandleSwap
    \/ \E t \in ToAmountTexts : SetToAmount(t)
    \/ OpenSettings
    \/ \E v \in DeadlineInputs : SetDeadline(v)
    \/ \E v \in SlippageInputs : SetSlippage(v)
    \/ CloseSettings
    \/ SaveSettings
    \/ Tick

SpecSettings == Init /\ [][NextSettings]_vars

\* The balance display: the two balance reads, re-fetches with a new value,
\* and the direction toggle.
NextBalance ==
    \/ HandleSwap
    \/ SelectFromToken
    \/ SelectToToken
    \/ \E v \in NativeBalances : NativeBalanceArrives(v)
    \/ NativeBalanceFails
    \/ \E v \in Erc20Balances : Erc20BalanceArrives(v)
    \/ Erc20BalanceFails

SpecBalance == Init /\ [][NextBalance]_vars

\* The swap pipeline.  It starts from the form as an edit of the From field
\* leaves it when its reserve read fails or its text is rejected, in either
\* direction (Init, HandleSwap for the DAI direction, HandleAmountChange(t),
\* QuoteReadFails), and then takes the Swap clicks, the direction toggle, the
\* settings modal and the clock.
InitSwap ==
    /\ isSwappingFromEth \in BOOLEAN
    /\ fromToken = IF isSwappingFromEth THEN [symbol |-> "ETH", balance |-> "1.234"]
                   ELSE [symbol |-> "DAI", balance |-> "1000"]
    /\ toToken = IF isSwappingFromEth THEN [symbol |-> "DAI", balance |-> "1000"]
                 ELSE [symbol |-> "ETH", balance |-> "1.234"]
    /\ fromAmount \in AmountTexts
    /\ toAmount = NumZero
    /\ showSettings = FALSE
    /\ slippage = DefaultSlippage
    /\ deadline = DefaultDeadline
    /\ lastSave = "none"
    /\ now = 0
    /\ reserves \in ReservePairs
    /\ quotes = <<>>
    /\ lastQuote = NewQuote(fromAmount, isSwappingFromEth,
                            IF ParseEther(fromAmount).ok THEN "failed" ELSE "done",
                            ParseEther(fromAmount).ok)
    /\ swaps = <<>>
    /\ lastSwap = NoSwap
    /\ nativeBalance = NotFetched
    /\ erc20Balance = NotFetched
    /\ crashed = FALSE

NextSwap ==
    \/ HandleSwap
    \/ OpenSettings
    \/ \E v \in DeadlineInputs : SetDeadline(v)
    \/ \E v \in SlippageInputs : SetSlippage(v)
    \/ CloseSettings
    \/ Tick
    \/ Len(swaps) < MaxPendingSwaps /\ ExecuteSwap
    \/ \E i \in 1..MaxPendingSwaps : SwapReservesArrive(i)
    \/ \E i \in 1..MaxPendingSwaps : SwapReadFails(i)
    \/ \E i \in 1..MaxPendingSwaps : ApproveBroadcast(i)
    \/ \E i \in 1..MaxPendingSwaps : ApproveRejects(i)
    \/ \E i \in 1..MaxPendingSwaps : RouterBroadcast(i)
    \/ \E i \in 1..MaxPendingSwaps : RouterRejects(i)
    \/ \E i \in 1..MaxPendingSwaps : \E st \in ReceiptStatuses : ReceiptArrives(i, st)
    \/ \E i \in 1..MaxPendingSwaps : ReceiptWaitFails(i)

SpecSwap == InitSwap /\ [][NextSwap]_vars

\* Overlapping clicks on Swap: the button is clicked again while earlier
\* attempts have not returned, and their awaits complete in any order.
NextSwapRace ==
    \/ Len(swaps) < MaxSwapOverlap /\ ExecuteSwap
    \/ \E i \in 1..MaxSwapOverlap : SwapReservesArrive(i)
    \/ \E i \in 1..MaxSwapOverlap : SwapReadFails(i)
    \/ \E i \in 1..MaxSwapOverlap : ApproveBroadcast(i)
    \/ \E i \in 1..MaxSwapOverlap : ApproveRejects(i)
    \/ \E i \in 1..MaxSwapOverlap : RouterBroadcast(i)
    \/ \E i \in 1..MaxSwapOverlap : RouterRejects(i)
    \/ \E i \in 1..MaxSwapOverlap : \E st \in ReceiptStatuses : ReceiptArrives(i, st)
    \/ \E i \in 1..MaxSwapOverlap : ReceiptWaitFails(i)

SpecSwapRace == InitSwap /\ [][NextSwapRace]_vars

\* ------------------------------------------------------------------ claims
\* The reserves of the input and of the output token for direction flag dir
\* (reserve0 is the DAI side, reserve1 the WETH side).
ReserveIn(dir)  == IF dir THEN reserves[2] ELSE reserves[1]
ReserveOut(dir) == IF dir THEN reserves[1] ELSE reserves[2]

\* floor(amountIn*997*reserveOut / (reserveIn*1000 + amountIn*997))
ConstantProductQuote(amountIn, reserveIn, reserveOut) ==
    (amountIn * 997 * reserveOut) \div (reserveIn * 1000 + amountIn * 997)

\* A call of handleAmountChange has returned.
Returned(q) == q.pc \in {"done", "failed"}

\* The last returned quote request read positive reserves for an amount >= 0.
QuotedOnPositiveReserves ==
    /\ lastQuote.pc = "done"
    /\ lastQuote.read
    /\ ParseEther(lastQuote.amount).val >= 0
    /\ reserves[1] > 0 /\ reserves[2] > 0

LastQuoteFormula ==
    ConstantProductQuote(ParseEther(lastQuote.amount).val,
                         ReserveIn(lastQuote.dir), ReserveOut(lastQuote.dir))

\* C1 as stated: for amountIn >= 0 and positive reserves the quote that
\* handleAmountChange produces (the value it writes to the To field, in base
\* units) equals floor(amountIn*997*reserveOut / (reserveIn*1000 + amountIn*997)).
C1_Original ==
    QuotedOnPositiveReserves => lastQuote.wrote = Reduce(LastQuoteFormula, 1)

\* C1 amended: for amountIn >= 0 and positive reserves, when the formula
\* value f is positive the trade built by fetchRouteAndTrade has output
\* amount f and handleAmountChange writes the execution price f/amountIn,
\* rounded to 6 significant digits, times the entered amount; when f is 0 no
\* trade is built and handleAmountChange writes 0.
C1_Amended ==
    QuotedOnPositiveReserves =>
        LET amountIn == ParseEther(lastQuote.amount).val
            f == LastQuoteFormula
        IN  IF f > 0
            THEN /\ lastQuote.traded
                 /\ lastQuote.inputAmount = amountIn
                 /\ lastQuote.outputAmount = f
                 /\ lastQuote.wrote =
                        Times(ToSignificant(f, amountIn, 6), Num(amountIn, 1))
            ELSE /\ ~lastQuote.traded
                 /\ lastQuote.wrote = NumZero

\* A quote of 11 base units for 3 was built and the To field shows 11.00001.
C1_Witness ==
    /\ QuotedOnPositiveReserves
    /\ lastQuote.traded
    /\ lastQuote.outputAmount = 11
    /\ lastQuote.wrote = Num(1100001, 100000)
    /\ toAmount = lastQuote.wrote

\* The text is no valid positive decimal: malformed, empty, zero or negative.
NotPositiveDecimal(t) == t.kind \in {"bad", "empty"} \/ (t.kind = "dec" /\ t.n <= 0)

\* C8 as stated: for a From text that is no valid positive decimal,
\* handleAmountChange issues no reserve read and reports a quote of 0.
C8_Original ==
    /\ \A i \in 1..Len(quotes) : ~NotPositiveDecimal(quotes[i].amount)
    /\ (Returned(lastQuote) /\ NotPositiveDecimal(lastQuote.amount)) =>
           (~lastQuote.read /\ lastQuote.wrote = NumZero)

\* C9: when the reserve read fails, or a reserve read is 0, handleAmountChange
\* returns having written 0 to the To field (the catch block ran; nothing is
\* thrown to the caller).
C9_ZeroQuoteOnNoLiquidity ==
    (Returned(lastQuote) /\ (lastQuote.pc = "failed"
                             \/ (lastQuote.read /\ (reserves[1] = 0 \/ reserves[2] = 0))))
        => (~lastQuote.traded /\ lastQuote.wrote = NumZero)

\* A request for 3 base units read a pool with an empty side and wrote 0.
C9_Witness ==
    /\ lastQuote.pc = "done"
    /\ lastQuote.read
    /\ lastQuote.amount = Dec(3)
    /\ ReserveIn(lastQuote.dir) = 0
    /\ fromAmount = Dec(3)
    /\ toAmount = NumZero

\* C10: for an input amount of 0 ("0" or "") the value written to the To
\* field is 0, whatever the reserves and whether or not the read succeeds.
C10_ZeroInZeroOut ==
    (Returned(lastQuote) /\ ParseEther(lastQuote.amount).ok
                         /\ ParseEther(lastQuote.amount).val = 0)
        => lastQuote.wrote = NumZero

\* A request for "0" read positive reserves and wrote 0.
C10_Witness ==
    /\ lastQuote.pc = "done"
    /\ lastQuote.read
    /\ lastQuote.amount = Dec(0)
    /\ reserves[1] > 0 /\ reserves[2] > 0
    /\ toAmount = NumZero

\* The calls of executeSwap, returned last or still running.
AllSwaps == {swaps[i] : i \in 1..Len(swaps)} \cup {lastSwap}

\* C2 as stated: from DAI, the router call is issued only after the approve
\* transaction of the same attempt was broadcast; after a failed approve no
\* router call is issued.
C2_Original ==
    \A a \in AllSwaps : (~a.dir /\ a.call.sent) => a.approved = "ok"

\* C3 as stated: from DAI, the amount passed to approve(router, amount)
\* equals the amountIn of the swap parameters of the same attempt.
C3_Original ==
    \A a \in AllSwaps :
        a.approve.sent => (/\ a.approve.spender = RouterAddress
                           /\ ScaledEquals(a.approve.amount, a.params.amountIn))

\* C4: the router call matches the direction flag the attempt was started
\* with: from ETH swapExactETHForTokens(amountOutMin, [WETH, DAI], to,
\* deadline) with value amountIn, else swapExactTokensForETH(amountIn,
\* amountOutMin, [DAI, WETH], to, deadline) with value 0.
C4_RouterCallMatchesDirection ==
    \A a \in AllSwaps :
        a.call.sent =>
            IF a.dir
            THEN /\ a.call.functionName = "swapExactETHForTokens"
                 /\ Len(a.call.args) = 4
                 /\ a.call.args[1] = a.params.amountOutMin
                 /\ a.call.args[2] = <<WethAddress, DaiAddress>>
                 /\ a.call.args[3] = Address
                 /\ a.call.args[4] = a.params.deadline
                 /\ a.call.value = a.params.amountIn
                 /\ a.params.amountIn = ParseEther(AmountToString(a.amount)).val
            ELSE /\ a.call.functionName = "swapExactTokensForETH"
                 /\ Len(a.call.args) = 5
                 /\ a.call.args[1] = a.params.amountIn
                 /\ a.call.args[2] = a.params.amountOutMin
                 /\ a.call.args[3] = <<DaiAddress, WethAddress>>
                 /\ a.call.args[4] = Address
                 /\ a.call.args[5] = a.params.deadline
                 /\ a.call.value = 0
                 /\ a.params.amountIn = ParseEther(AmountToString(a.amount)).val

\* A DAI-to-ETH attempt has issued its router call after the direction was
\* toggled back to ETH.
C4_Witness ==
    \E i \in 1..Len(swaps) :
        /\ swaps[i].call.sent
        /\ ~swaps[i].dir
        /\ swaps[i].call.functionName = "swapExactTokensForETH"
        /\ isSwappingFromEth

C6_Original ==
    \A a \in AllSwaps :
        a.params.built =>
            /\ a.params.amountOutMin <= a.outputAmount
            /\ (a.params.amountOutMin = a.outputAmount => SlippageNumerator = 0)

\* C7 as stated: when the parameters are built, their deadline is the build
\* time (epoch seconds) plus the configured deadline minutes * 60, within one
\* second, and later than the build time.  The configured minutes are the
\* deadline state of the settings modal (20 when it was never changed).
C7_Original ==
    [][\A i \in 1..MaxPendingSwaps :
          (SwapReservesArrive(i) /\ i <= Len(swaps') /\ swaps'[i].params.built) =>
              LET built == swaps'[i].params.deadline * 1000
                  asked == now + deadline * 60 * 1000
              IN  /\ Abs(built - asked) <= 1000
                  /\ built > now]_vars

\* The alert msg was shown during attempt a.
Alerted(a, msg) == \E k \in 1..Len(a.alerts) : a.alerts[k] = msg

\* The outcome notifications of attempt a, in the order shown.
OutcomeAlerts(a) ==
    SelectSeq(a.alerts, LAMBDA m : m \in {"Swap Success!", "Swap Failed!"})

\* The number of transactions of kind k that attempt a has issued.
Issued(a, k) == Len(SelectSeq(a.txs, LAMBDA x : x = k))

\* C11 as stated: a swap attempt whose router call was issued and that failed
\* (the submission rejected, the receipt wait failed, or the receipt status
\* is not success) has shown the user a failure notification.
C11_Original ==
    \A a \in AllSwaps :
        (a.pc = "done" /\ a.call.sent /\ (a.caught \/ a.receipt = "reverted"))
            => Alerted(a, "Swap Failed!")

\* C12: no outcome is reported while no receipt is available; with a receipt
\* exactly one outcome is reported, success when the status is "success" and
\* failure for any other status, and the attempt has returned.
C12_OutcomeFollowsReceipt ==
    \A a \in AllSwaps :
        /\ (a.receipt = "none" => OutcomeAlerts(a) = <<>>)
        /\ (a.receipt = "success" => OutcomeAlerts(a) = <<"Swap Success!">>)
        /\ (a.receipt \notin {"none", "success"} => OutcomeAlerts(a) = <<"Swap Failed!">>)
        /\ (a.receipt # "none" => (a.call.sent /\ a.pc = "done"))
        /\ (a.pc = "receipt" => (a.call.sent /\ a.receipt = "none"))

\* An attempt whose approve was rejected got a reverted receipt and reported
\* the failure once.
C12_Witness ==
    /\ lastSwap.receipt = "reverted"
    /\ lastSwap.alerts = <<"Approval Failed!", "Swap Failed!">>

\* C16: an attempt issues at most one router transaction and at most one
\* approve transaction, no approve transaction when swapping from ETH, and
\* an attempt that ended in the catch block has returned.
C16_OneTransactionEach ==
    \A a \in AllSwaps :
        /\ Issued(a, "router") <= 1
        /\ Issued(a, "approve") <= 1
        /\ Issued(a, "router") + Issued(a, "approve") = Len(a.txs)
        /\ (a.dir => (Issued(a, "approve") = 0 /\ ~a.approve.sent))
        /\ (a.call.sent <=> Issued(a, "router") = 1)
        /\ (a.caught => a.pc = "done")

\* A DAI-to-ETH attempt failed after one approve and one router transaction
\* and nothing is in flight.
C16_Witness ==
    /\ lastSwap.caught
    /\ ~lastSwap.dir
    /\ lastSwap.txs = <<"approve", "router">>
    /\ swaps = <<>>

\* C20 as stated: when the parameters are built, the minimum output is the
\* quoted output reduced by the slippage set in the settings modal (50 basis
\* points when it was never changed).
C20_Original ==
    [][\A i \in 1..MaxPendingSwaps :
          (SwapReservesArrive(i) /\ i <= Len(swaps') /\ swaps'[i].params.built) =>
              swaps'[i].params.amountOutMin =
                  TruncDiv(swaps'[i].outputAmount * 10000, 10000 + slippage)]_vars

\* The reserve read of pending quote request i completes in this step.
QuoteCompletes(i) ==
    i <= Len(quotes) /\ (QuoteReservesArrive(i) \/ QuoteReadFails(i))

\* C14: whenever the reserve read of a pending request completes, the From
\* and To fields take the values of that request, also when a later request
\* was issued in the meantime: what is displayed once all requests have
\* completed was written by the request that completed last.
C14_LastWriteWins ==
    [][\A i \in 1..MaxOverlap :
          QuoteCompletes(i) =>
              /\ fromAmount' = quotes[i].amount
              /\ toAmount' = lastQuote'.wrote
              /\ lastQuote'.amount = quotes[i].amount
              /\ lastQuote'.dir = quotes[i].dir
              /\ lastQuote'.stale = quotes[i].stale]_vars

\* All requests have completed; the one that completed last, for "3", was
\* issued before a later request, and its values are displayed.
C14_Witness ==
    /\ quotes = <<>>
    /\ lastQuote.stale
    /\ lastQuote.traded
    /\ lastQuote.amount = Dec(3)
    /\ fromAmount = Dec(3)
    /\ toAmount = lastQuote.wrote

\* C15 as stated: the response of a request that is not the most recently
\* issued one is discarded: it changes neither the From nor the To field.
C15_Original ==
    [][\A i \in 1..MaxOverlap :
          (QuoteCompletes(i) /\ quotes[i].stale) =>
              (fromAmount' = fromAmount /\ toAmount' = toAmount)]_vars

\* C17: handleSwap is an involution on the form: toggling the toggled form
\* gives back the tokens, the amounts and the direction flag, and with them
\* the (input, output) pair.
C17_ToggleTwice ==
    [][HandleSwap =>
          /\ Toggled(form') = form
          /\ InputToken(isSwappingFromEth') = OutputToken(isSwappingFromEth)
          /\ OutputToken(isSwappingFromEth') = InputToken(isSwappingFromEth)]_vars

\* The form was toggled after a quote of 11.00001 for "3" was displayed.
C17_Witness ==
    /\ ~isSwappingFromEth
    /\ fromToken.symbol = "DAI"
    /\ toToken.symbol = "ETH"
    /\ fromAmount = Num(1100001, 100000)
    /\ toAmount = Dec(3)
    /\ Toggled(Toggled(form)) = form

\* C13 as stated (balance reads): no failure of a balance read lets an
\* exception escape the balance effect; the component stays mounted, so the
\* form state is defined and its operations stay enabled.
C13_Original == ~crashed

\* The output amount fetchRouteAndTrade quotes for x base units in direction
\* dir on the current reserves, 0 when no trade is built.
QuotedOutput(x, dir) ==
    LET got == GetOutputAmount(reserves, InputToken(dir) = DAI, x)
    IN  IF got.ok THEN got.val ELSE 0

\* The last returned quote request read the reserves, both positive, for an
\* amount >= 0.
LastQuoteOnLiquidity ==
    /\ lastQuote.pc = "done"
    /\ lastQuote.read
    /\ ParseEther(lastQuote.amount).val >= 0
    /\ reserves[1] > 0 /\ reserves[2] > 0

EthForDaiScenario ==
    /\ LastQuoteOnLiquidity
    /\ lastQuote.dir
    /\ reserves = <<200000, 100>>
    /\ lastQuote.amount = Dec(10)

\* C19 as stated: in the scenario the quoted output is the formula value and
\* is 1813.6 DAI to the first decimal (18136 units).
C19_Original ==
    EthForDaiScenario =>
        /\ lastQuote.traded
        /\ lastQuote.outputAmount = ConstantProductQuote(10, 100, 200000)
        /\ lastQuote.outputAmount = 18136

\* C19 amended: in the scenario the quoted output is the formula value,
\* which is 1813.2 DAI to the first decimal (18132 units), and the To field
\* shows that value.
C19_Amended ==
    EthForDaiScenario =>
        /\ lastQuote.traded
        /\ lastQuote.outputAmount = ConstantProductQuote(10, 100, 200000)
        /\ lastQuote.outputAmount = 18132
        /\ lastQuote.wrote = Num(18132, 1)

\* The scenario was quoted and its quote is displayed.
C19_Witness ==
    /\ EthForDaiScenario
    /\ lastQuote.outputAmount = 18132
    /\ fromAmount = Dec(10)
    /\ toAmount = Num(18132, 1)

\* C21 as stated: a click on Save hands the two settings to the parent and
\* closes the modal; Cancel closes it and hands nothing over.
C21_Original ==
    [][/\ SaveSettings => (lastSave' = "saved" /\ ~showSettings')
       /\ CloseSettings => (lastSave' = lastSave /\ ~showSettings')]_vars

\* C22: the direction flag agrees with the displayed tokens: it is true
\* exactly when From is ETH and To is DAI, false exactly when From is DAI and
\* To is ETH, and the two tokens are never the same.
C22_FlagAgreesWithTokens ==
    /\ isSwappingFromEth <=> (fromToken.symbol = "ETH" /\ toToken.symbol = "DAI")
    /\ ~isSwappingFromEth <=> (fromToken.symbol = "DAI" /\ toToken.symbol = "ETH")
    /\ fromToken.symbol # toToken.symbol

\* The direction was toggled to DAI -> ETH and a balance update has written
\* the From selector's balance since.
C22_Witness ==
    /\ ~isSwappingFromEth
    /\ fromToken.symbol = "DAI"
    /\ toToken.symbol = "ETH"
    /\ nativeBalance = Fetched(2)
    /\ fromToken.balance = FormatUnits(2, Decimals)

\* The balances that may be shown for the native asset and for DAI: the
\* initial placeholder or a fetched balance, formatted.
NativeDisplays == {"1.234"} \cup {FormatUnits(v, Decimals) : v \in NativeBalances}
DaiDisplays    == {"1000"} \cup {FormatEther(v) : v \in Erc20Balances}

\* The balance shown beside symbol sym.
ShownBalance(sym) ==
    IF fromToken.symbol = sym THEN fromToken.balance ELSE toToken.balance

\* C23 as stated: the balance beside ETH is the native balance or the
\* placeholder, and the balance beside DAI is the DAI balance or the
\* placeholder.
C23_Original ==
    /\ ShownBalance("ETH") \in NativeDisplays
    /\ ShownBalance("DAI") \in DaiDisplays

\* An attempt that is building, approving, submitting or awaiting its
\* receipt.
InFlight(a) == a.pc \in {"fetch", "approve", "swap", "receipt"}

\* C24 as stated: at most one swap attempt is in flight at any time; a click
\* on Swap while an attempt is in flight starts no second one.
C24_Original ==
    Cardinality({i \in 1..Len(swaps) : InFlight(swaps[i])}) <= 1

\* C25 as stated: a quote request started under one direction does not
\* overwrite the From and To amounts once the direction has been toggled:
\* what a completing request writes was computed for the current direction.
C25_Original ==
    [][\A i \in 1..MaxPendingQuotes :
          (QuoteCompletes(i) /\ quotes[i].dir # isSwappingFromEth) =>
              (fromAmount' = fromAmount /\ toAmount' = toAmount)]_vars

\* The direction of the tokens, the path, the approve decision, the router
\* function and the attached value of attempt a all follow flag d.
ConsistentWith(a, d) ==
    /\ a.params.built =>
           /\ a.outputAmount = GetOutputAmount(reserves, InputToken(d) = DAI,
                                               a.inputAmount).val
           /\ a.params.path = <<InputToken(d).address, OutputToken(d).address>>
    /\ a.approve.sent => ~d
    /\ (a.call.sent /\ ~d) => a.approve.sent
    /\ a.call.sent =>
           /\ a.call.functionName = (IF d THEN "swapExactETHForTokens"
                                     ELSE "swapExactTokensForETH")
           /\ a.call.value = (IF d THEN a.params.amountIn ELSE 0)

\* C26: every swap attempt is consistent with the direction flag as it was
\* when Swap was clicked, also when the direction is toggled while the
\* attempt is in flight.
C26_AttemptKeepsDirection ==
    \A a \in AllSwaps : ConsistentWith(a, a.dir)

\* An ETH-to-DAI attempt ended with a successful receipt after the direction
\* had been toggled to DAI-to-ETH.
C26_Witness ==
    /\ lastSwap.dir
    /\ ~isSwappingFromEth
    /\ lastSwap.call.sent
    /\ lastSwap.receipt = "success"
    /\ ConsistentWith(lastSwap, TRUE)
    /\ ~ConsistentWith(lastSwap, FALSE)

\* C27: an attempt whose reserve read failed, or for which no trade can be
\* built (a reserve is 0, the From amount is 0 or does not parse), issues
\* neither an approve nor a router transaction.
C27_NoTransactionWithoutTrade ==
    \A a \in AllSwaps :
        LET parsed == ParseEther(AmountToString(a.amount))
        IN  (a.pc # "none" /\ (\/ ~parsed.ok
                               \/ parsed.val = 0
                               \/ reserves[1] = 0 \/ reserves[2] = 0
                               \/ (a.caught /\ ~a.params.built)))
                => (a.txs = <<>> /\ ~a.approve.sent /\ ~a.call.sent)

\* An attempt for "3" read a pool with an empty side, ended in the catch
\* block and issued nothing.
C27_Witness ==
    /\ lastSwap.pc = "done"
    /\ lastSwap.read
    /\ lastSwap.caught
    /\ lastSwap.amount = Dec(3)
    /\ (reserves[1] = 0 \/ reserves[2] = 0)
    /\ lastSwap.txs = <<>>

\* The swap parameters a click on Swap would build from the current form,
\* reserves and clock; NoParams when buildSwapTransaction would throw.
SwapInstructionOf(amount, flag, res, clock) ==
    LET parsed == ParseEther(AmountToString(amount))
        trade  == FetchRouteAndTrade(res, parsed.val,
                                     InputToken(flag), OutputToken(flag))
    IN  IF parsed.ok /\ trade.ok
        THEN BuildSwapTransaction(trade, flag, Address, clock)
        ELSE NoParams

SwapInstruction ==
    SwapInstructionOf(fromAmount, isSwappingFromEth, reserves, now)

\* C29: an edit of the To field sets the To amount and nothing else: the
\* From amount, both tokens and the direction flag stay, no reserve read is
\* issued, and the swap parameters a following click on Swap builds are the
\* same as before the edit.
C29_ToEditFrame ==
    [][\A t \in ToAmountTexts :
          SetToAmount(t) =>
              /\ toAmount' = t
              /\ UNCHANGED <<fromAmount, fromToken, toToken, isSwappingFromEth>>
              /\ UNCHANGED <<quotes, lastQuote, swaps>>
              /\ SwapInstructionOf(fromAmount', isSwappingFromEth', reserves', now')
                     = SwapInstruction]_vars

\* The To field was edited to "3" over the quote 11.00001 displayed for a
\* From amount of "3".
C29_Witness ==
    /\ quotes = <<>>
    /\ lastQuote.traded
    /\ lastQuote.wrote = Num(1100001, 100000)
    /\ lastQuote.dir = isSwappingFromEth
    /\ fromAmount = lastQuote.amount
    /\ toAmount = Dec(3)
    /\ SwapInstruction.built

\* A call of handleAmountChange(t) is waiting for its reserve read.
Pending(t) == \E i \in 1..Len(quotes) : quotes[i].amount = t

\* C28: every edit of the From field is eventually reflected.  An edit whose
\* text does not parse shows its text at once; any other edit issues a
\* reserve read, and once that read resolves or rejects the From amount
\* shows the text of the edit, whether or not a quote was made, and whatever
\* toggles or other edits happened in between.
C28_EditEventuallyShown ==
    /\ [][\A t \in RaceTexts :
             HandleAmountChange(t) =>
                 \/ fromAmount' = t
                 \/ \E i \in 1..Len(quotes') : quotes'[i].amount = t]_vars
    /\ \A t \in RaceTexts : Pending(t) ~> (fromAmount = t)

\* The read for the edit "3" rejected and the From amount shows "3" beside
\* a To amount of 0.
C28_Witness ==
    /\ quotes = <<>>
    /\ lastQuote.pc = "failed"
    /\ lastQuote.amount = Dec(3)
    /\ fromAmount = Dec(3)
    /\ toAmount = NumZero

\* C30 as stated: a quote made on positive reserves is strictly less than
\* the reserve of the output token, for every amount entered.
C30_Original ==
    (lastQuote.traded /\ reserves[1] > 0 /\ reserves[2] > 0) =>
        lastQuote.outputAmount < ReserveOut(lastQuote.dir)

====
